---- MODULE Spec2Model ----
(***************************************************************************)
(* file-replicator: a local directory tree is mirrored onto a remote      *)
(* machine through one long-lived shell process.  The model follows       *)
(* src/file_replicator/lib.py (session, copy_file, bulk replication,      *)
(* change watcher), src/file_replicator/cli.py (main) and                 *)
(* src/file_replicator/tar_adapter.py (archive command lines).            *)
(*                                                                         *)
(* A string is a sequence of one-character strings, a path is a sequence  *)
(* of names, so that joining, splitting and "starts with" are computed.   *)
(***************************************************************************)
EXTENDS Integers, Sequences, FiniteSets, TLC

\* ------------------------------------------------------------------------
\* Bounds of the model
\* ------------------------------------------------------------------------
\* deepest relative path of a source file (number of names)
MaxDepth == 2
\* regular files present in the source tree when the run starts
MaxInitFiles == 2
\* changes the user makes to the source tree while a run is going on
MaxChanges == 1
\* reads the environment lets fail with a diagnostic other than "not found"
MaxFaults == 1
\* latest reading of the clock
MaxTime == 2
\* most calls made on one adapter object
MaxCalls == 2

\* ------------------------------------------------------------------------
\* Names, paths and strings
\* ------------------------------------------------------------------------
NoPath == <<<<"?">>>>
DirKind == "DIR"

\* names of regular files: with whitespace and a shell metacharacter, with a
\* leading dash
FileNames == {<<"t", " ", "$">>, <<"-", "x">>}
DirName == <<"b", "u", "i", "l", "d">>
StaleName == <<"o", "l", "d">>

\* absolute source root and destination parent, as the session resolves them
SrcDir == <<<<"s", "r", "v">>, <<"t", "e", "s", "t">>>>
DestParent == <<<<"d", "s", "t">>>>
\* a destination parent whose name holds a space, and the two parents a
\* caller may name
SpacedParent == <<<<"d", " ", "t">>>>
DestParents == {DestParent, SpacedParent}
\* the directory the session process starts in
RemoteHome == <<<<"h">>>>

RECURSIVE Repeat(_, _)
Repeat(x, n) == IF n = 0 THEN <<>> ELSE <<x>> \o Repeat(x, n - 1)

\* relative paths of the directories and the regular files the tree can hold
DirPaths == {Repeat(DirName, n) : n \in 1..(MaxDepth - 1)}
FilePaths == {Repeat(DirName, n) \o <<f>> : n \in 0..(MaxDepth - 1), f \in FileNames}

Last(s) == s[Len(s)]
Front(s) == SubSeq(s, 1, Len(s) - 1)
Prefixes(p) == {SubSeq(p, 1, n) : n \in 0..Len(p)}
IsPrefix(p, q) == Len(p) <= Len(q) /\ SubSeq(q, 1, Len(p)) = p

\* os.path.join(src_dir, filename) and os.path.relpath(src_filename, src_dir)
AbsPath(rel) == SrcDir \o rel
RelPath(abs) == SubSeq(abs, Len(SrcDir) + 1, Len(abs))

\* the relative path as the one string handed to the archive tool
RECURSIVE JoinPath(_)
JoinPath(p) ==
    IF Len(p) = 0 THEN <<".">>
    ELSE IF Len(p) = 1 THEN p[1]
    ELSE p[1] \o <<"/">> \o JoinPath(Tail(p))

\* a member name of an archive split back into names at "/"
RECURSIVE SplitPath(_, _)
SplitPath(s, cur) ==
    IF Len(s) = 0 THEN (IF Len(cur) = 0 THEN <<>> ELSE <<cur>>)
    ELSE IF Head(s) = "/" THEN
        (IF Len(cur) = 0 THEN SplitPath(Tail(s), <<>>)
         ELSE <<cur>> \o SplitPath(Tail(s), <<>>))
    ELSE SplitPath(Tail(s), Append(cur, Head(s)))

MemberPath(name) == IF name = <<".">> THEN <<>> ELSE SplitPath(name, <<>>)

\* an absolute path as the string os.path.join builds
PathText(p) == <<"/">> \o JoinPath(p)

\* the words bash splits an unquoted string into (at spaces)
RECURSIVE ShellWords(_, _)
ShellWords(s, cur) ==
    IF Len(s) = 0 THEN (IF Len(cur) = 0 THEN <<>> ELSE <<cur>>)
    ELSE IF Head(s) = " " THEN
        (IF Len(cur) = 0 THEN ShellWords(Tail(s), <<>>)
         ELSE <<cur>> \o ShellWords(Tail(s), <<>>))
    ELSE ShellWords(Tail(s), Append(cur, Head(s)))

\* the path a word names for a process whose working directory is home
WordPath(word, home) ==
    IF Head(word) = "/" THEN SplitPath(word, <<>>) ELSE home \o SplitPath(word, <<>>)

\* ------------------------------------------------------------------------
\* File systems: a function from the absolute paths that exist to DirKind
\* or to the content of a regular file
\* ------------------------------------------------------------------------
Exists(fs, p) == p \in DOMAIN fs
IsDir(fs, p) == Exists(fs, p) /\ fs[p] = DirKind
IsFile(fs, p) == Exists(fs, p) /\ fs[p] # DirKind

Put(fs, p, v) == [q \in (DOMAIN fs) \cup {p} |-> IF q = p THEN v ELSE fs[q]]
Drop(fs, ps) == [q \in (DOMAIN fs) \ ps |-> fs[q]]

\* mkdir -p / os.makedirs: the directory and every missing ancestor
MakeDirs(fs, d) ==
    LET new == {q \in Prefixes(d) : Len(q) > 0 /\ ~Exists(fs, q)}
    IN [q \in (DOMAIN fs) \cup new |-> IF q \in new THEN DirKind ELSE fs[q]]

\* everything strictly below a directory
Below(fs, d) == {q \in DOMAIN fs : IsPrefix(d, q) /\ q # d}

\* mkdir -p d1 d2 ...
RECURSIVE MakeAll(_, _)
MakeAll(fs, ds) == IF Len(ds) = 0 THEN fs ELSE MakeAll(MakeDirs(fs, Head(ds)), Tail(ds))

\* ------------------------------------------------------------------------
\* Archive adapters (tar_adapter.py)
\* ------------------------------------------------------------------------
NoAdapter == [flavor |-> "none", prefix |-> <<>>]
GnuTarAdapter(prefix) == [flavor |-> "gnu", prefix |-> prefix]
BsdTarAdapter == [flavor |-> "bsd", prefix |-> <<>>]
BusyBoxTarAdapter == [flavor |-> "busybox", prefix |-> <<>>]

tTar == <<"t", "a", "r">>
oCreate == <<"-", "-", "c", "r", "e", "a", "t", "e">>
oToStdout == <<"-", "-", "t", "o", "-", "s", "t", "d", "o", "u", "t">>
oIgnoreFailedRead ==
    <<"-", "-", "i", "g", "n", "o", "r", "e", "-", "f", "a", "i", "l", "e", "d",
      "-", "r", "e", "a", "d">>
oNoSameOwner ==
    <<"-", "-", "n", "o", "-", "s", "a", "m", "e", "-", "o", "w", "n", "e", "r">>
oExtract == <<"-", "-", "e", "x", "t", "r", "a", "c", "t">>
oVerbose == <<"-", "-", "v", "e", "r", "b", "o", "s", "e">>

\* AbstractTarAdapter.cmd, overridden by PrefixedTarAdapter.cmd
cmd(a) == IF a.flavor = "gnu" THEN a.prefix \o tTar ELSE tTar

receiver_options(a) ==
    CASE a.flavor = "gnu" -> <<oNoSameOwner, oExtract, oVerbose>>
      [] a.flavor = "bsd" -> <<<<"-", "o">>, <<"-", "x">>, <<"-", "v">>>>
      [] OTHER -> <<<<"x">>, <<"-", "v">>>>

\* options that name the path last, after every option
sender_options_path_last(a, src_file) ==
    CASE a.flavor = "gnu" -> <<oCreate, oToStdout, oIgnoreFailedRead, src_file>>
      [] a.flavor = "bsd" -> <<<<"-", "c">>, <<"-", "f">>, <<"-">>, src_file>>
      [] OTHER -> <<<<"c">>, <<"-", "f">>, <<"-">>, src_file>>

sender_options(a, src_file) ==
    CASE a.flavor = "gnu" -> <<oCreate, src_file, oToStdout, oIgnoreFailedRead>>
      [] a.flavor = "bsd" -> <<<<"-", "c">>, <<"-", "f">>, <<"-">>, src_file>>
      [] OTHER -> <<<<"c">>, <<"-", "f">>, <<"-">>, src_file>>

receiver_cmd(a) == <<cmd(a)>> \o receiver_options(a)
sender_cmd(a, src_file) == <<cmd(a)>> \o sender_options(a, src_file)

\* the constructor calls a caller can write: GnuTarAdapter(), or with
\* prefix=..., and the same for the other two classes
Requests ==
    {r \in [flavor : {"gnu", "bsd", "busybox"}, given : BOOLEAN,
            prefix : {<<>>, <<"g">>}] : ~r.given => r.prefix = <<>>}

\* GnuTarAdapter is a PrefixedTarAdapter (__init__(self, prefix=""));
\* BsdTarAdapter and BusyBoxTarAdapter derive from AbstractTarAdapter, which
\* defines no __init__: an argument raises TypeError
Construct(request) ==
    IF request.flavor = "gnu"
    THEN [err |-> "none",
          obj |-> GnuTarAdapter(IF request.given THEN request.prefix ELSE <<>>)]
    ELSE IF request.given THEN [err |-> "TypeError", obj |-> NoAdapter]
    ELSE [err |-> "none",
          obj |-> IF request.flavor = "bsd" THEN BsdTarAdapter ELSE BusyBoxTarAdapter]

\* " ".join(...)
RECURSIVE JoinWords(_)
JoinWords(ws) ==
    IF Len(ws) = 0 THEN <<>>
    ELSE IF Len(ws) = 1 THEN ws[1]
    ELSE ws[1] \o <<" ">> \o JoinWords(Tail(ws))

receiver_cmd_str(a) == JoinWords(receiver_cmd(a))

\* `sub in s` of Python strings
Contains(sub, s) ==
    \E i \in 0..(Len(s) - Len(sub)) : SubSeq(s, i + 1, i + Len(sub)) = sub

sGnuTar == <<"G", "N", "U", " ", "t", "a", "r">>
sBsdTar == <<"b", "s", "d", "t", "a", "r">>
sBusyBox == <<"b", "u", "s", "y", "b", "o", "x">>

match_flavor_output(a, output) ==
    CASE a.flavor = "gnu" -> Contains(sGnuTar, output)
      [] a.flavor = "bsd" -> Contains(sBsdTar, output)
      [] OTHER -> Contains(sBusyBox, output)

\* ------------------------------------------------------------------------
\* Flavor detection (detect_local_tar, detect_remote_tar)
\* ------------------------------------------------------------------------
\* what `<cmd> --version` may print on stdout
VersionOutputs ==
    {<<"t", "a", "r", " ", "(", "G", "N", "U", " ", "t", "a", "r", ")", " ", "1">>,
     <<"b", "s", "d", "t", "a", "r", " ", "2">>,
     <<"t", "a", "r", " ", "(", "b", "u", "s", "y", "b", "o", "x", ")", " ", "1">>,
     <<"U", "n", "k", "n", "o", "w", "n", " ", "t", "a", "r">>,
     <<>>}

\* one subprocess.run of a probe: the process could not be started (no such
\* file, or no permission to execute it), or it ran, printed and exited
Probes ==
    {[launch |-> l, rc |-> 0, out |-> <<>>] : l \in {"enoent", "eacces"}}
        \cup {[launch |-> "ok", rc |-> r, out |-> o] : r \in {0, 1}, o \in VersionOutputs}

\* the candidate lists: the default of detect_local_tar (and ALL_TARS of the
\* tests), the default of detect_remote_tar
AllTars == <<GnuTarAdapter(<<>>), GnuTarAdapter(<<"g">>), BsdTarAdapter, BusyBoxTarAdapter>>
GnuTars == <<GnuTarAdapter(<<>>), GnuTarAdapter(<<"g">>)>>

\* one turn of the loop of detect_local_tar: check=True, FileNotFoundError
\* and CalledProcessError are caught and the loop goes on
detect_local_step(tar_flavor, probe) ==
    IF probe.launch = "enoent" THEN "continue"
    ELSE IF probe.launch = "eacces" THEN "PermissionError"
    ELSE IF probe.rc # 0 THEN "continue"
    ELSE IF match_flavor_output(tar_flavor, probe.out) THEN "return"
    ELSE "continue"

\* a remote detection that went on to the next candidate when the shell
\* could not be started
detect_remote_step_skipping(tar_flavor, probe) ==
    IF probe.launch # "ok" THEN "continue"
    ELSE IF match_flavor_output(tar_flavor, probe.out) THEN "return"
    ELSE "continue"

\* one turn of the loop of detect_remote_tar: no check=True, so the exit
\* status is not looked at; FileNotFoundError becomes RuntimeError
detect_remote_step(tar_flavor, probe) ==
    IF probe.launch = "enoent" THEN "RuntimeError"
    ELSE IF probe.launch = "eacces" THEN "PermissionError"
    ELSE IF match_flavor_output(tar_flavor, probe.out) THEN "return"
    ELSE "continue"

\* ------------------------------------------------------------------------
\* The archive tool run by copy_file: subprocess.run(sender_cmd, cwd=src_dir)
\* It takes every argument that starts with "-" for an option, whatever the
\* caller meant by it; the argument after -f names the archive.
\* ------------------------------------------------------------------------
NoOutput == {[name |-> <<>>, kind |-> "none", data |-> "none"]}

IsOption(tok) == Len(tok) > 1 /\ Head(tok) = "-"

RECURSIVE Operands(_)
Operands(args) ==
    IF Len(args) = 0 THEN <<>>
    ELSE IF Head(args) = <<"-", "f">> THEN
        (IF Len(args) = 1 THEN <<>> ELSE Operands(Tail(Tail(args))))
    ELSE IF IsOption(Head(args)) THEN Operands(Tail(args))
    ELSE <<Head(args)>> \o Operands(Tail(args))

RECURSIVE Options(_)
Options(args) ==
    IF Len(args) = 0 THEN <<>>
    ELSE IF Head(args) = <<"-", "f">> THEN
        (IF Len(args) = 1 THEN <<Head(args)>>
         ELSE <<Head(args)>> \o Options(Tail(Tail(args))))
    ELSE IF IsOption(Head(args)) THEN <<Head(args)>> \o Options(Tail(args))
    ELSE Options(Tail(args))

Count(seq, x) == Cardinality({i \in 1..Len(seq) : seq[i] = x})

\* the options of a well-formed create command line, each given once
CreateOptionsOk(args) ==
    LET opts == Options(args)
        gnu == {oCreate, oToStdout, oIgnoreFailedRead}
        bsd == {<<"-", "c">>, <<"-", "f">>}
        one(S) == /\ \A i \in 1..Len(opts) : opts[i] \in S
                  /\ \A o \in S : Count(opts, o) <= 1
    IN \/ (Count(opts, oCreate) = 1 /\ one(gnu))
       \/ (Count(opts, <<"-", "c">>) = 1 /\ one(bsd))
       \/ (Len(args) > 0 /\ Head(args) = <<"c">> /\ one({<<"-", "f">>}))

\* the members tar writes for one operand: the file, or the directory with
\* everything below it
MembersOf(fs, cwd, operand) ==
    LET p == cwd \o MemberPath(operand)
    IN IF IsFile(fs, p) THEN {[name |-> operand, kind |-> "file", data |-> fs[p]]}
       ELSE {[name |-> JoinPath(SubSeq(q, Len(cwd) + 1, Len(q))),
              kind |-> IF fs[q] = DirKind THEN "dir" ELSE "file",
              data |-> fs[q]] : q \in {p} \cup Below(fs, p)}

\* exit status, diagnostic and archive written to stdout.  `fault` is the
\* environment refusing the read of an existing entry (e.g. no permission).
TarCreate(argv, fs, cwd, fault) ==
    LET args == Tail(argv)
        ops == IF Head(args) = <<"c">> THEN Tail(Operands(args)) ELSE Operands(args)
        tolerant == Count(args, oIgnoreFailedRead) > 0
    IN IF ~CreateOptionsOk(args) \/ Len(ops) = 0
       THEN [rc |-> 2, err |-> "usage", out |-> NoOutput]
       ELSE IF ~Exists(fs, cwd \o MemberPath(ops[1]))
       THEN [rc |-> IF tolerant THEN 0 ELSE 1, err |-> "enoent", out |-> {}]
       ELSE IF fault
       THEN [rc |-> IF tolerant THEN 0 ELSE 1, err |-> "denied", out |-> {}]
       ELSE [rc |-> 0, err |-> "", out |-> MembersOf(fs, cwd, ops[1])]

\* tar --extract fails (exit status 2) on a file member that has a regular
\* file where one of its parent directories should be, unless the archive
\* brings that directory itself, and on a file member that has a directory
\* with content in its place
ExtractFails(fs, cwd, members) ==
    LET at(m) == cwd \o MemberPath(m.name)
        files == {m \in members : m.kind = "file"}
        dirsSent == {at(m) : m \in members \ files}
    IN \E m \in files :
          \/ \E d \in Prefixes(Front(at(m))) \ dirsSent : IsFile(fs, d)
          \/ (IsDir(fs, at(m)) /\ Below(fs, at(m)) # {})

\* an extraction that kept what it found under a backup name
TarExtractKeepOld(fs, cwd, members) ==
    LET at(m) == cwd \o MemberPath(m.name)
        files == {m \in members : m.kind = "file"}
        dirsSent == {at(m) : m \in members \ files}
        dirs == UNION ({Prefixes(Front(at(m))) : m \in files}
                       \cup {Prefixes(d) : d \in dirsSent})
        newDirs == {d \in dirs : Len(d) > 0 /\ ~Exists(fs, d)}
        filePaths == {at(m) : m \in files}
        backups == {Front(q) \o <<Append(Last(q), "~")>> : q \in {r \in filePaths : IsFile(fs, r)}}
    IN [q \in (DOMAIN fs) \cup newDirs \cup filePaths \cup backups |->
          IF q \in filePaths THEN (CHOOSE m \in files : at(m) = q).data
          ELSE IF q \in backups THEN fs[Front(q) \o <<Front(Last(q))>>]
          ELSE IF q \in newDirs \cup dirsSent THEN DirKind
          ELSE fs[q]]

\* tar --extract in the destination directory: members are created with
\* their missing parent directories, existing files are replaced, a file in
\* the place of a directory member gives way to the directory
TarExtract(fs, cwd, members) ==
    LET at(m) == cwd \o MemberPath(m.name)
        files == {m \in members : m.kind = "file"}
        dirsSent == {at(m) : m \in members \ files}
        dirs == UNION ({Prefixes(Front(at(m))) : m \in files}
                       \cup {Prefixes(d) : d \in dirsSent})
        newDirs == {d \in dirs : Len(d) > 0 /\ ~Exists(fs, d)}
        filePaths == {at(m) : m \in files}
    IN [q \in (DOMAIN fs) \cup newDirs \cup filePaths |->
          IF q \in filePaths THEN (CHOOSE m \in files : at(m) = q).data
          ELSE IF q \in newDirs \cup dirsSent THEN DirKind
          ELSE fs[q]]

\* ------------------------------------------------------------------------
\* The ignore matcher (get_pathspec, "gitwildmatch" rules).  A rule is a
\* name, anchored to the root of the path it is tested against ("/build")
\* or matching at any depth ("t $"); a path matches with everything below it.
\* ------------------------------------------------------------------------
Rules == {[anchored |-> TRUE, name |-> DirName], [anchored |-> FALSE, name |-> <<"t", " ", "$">>]}

MatchRule(r, p) ==
    IF r.anchored THEN Len(p) >= 1 /\ p[1] = r.name
    ELSE \E i \in 1..Len(p) : p[i] = r.name

match_file(spec, p) == \E r \in spec : MatchRule(r, p)

get_pathspec(ignoreFile, use_gitignore) == IF use_gitignore THEN ignoreFile ELSE {}

\* ------------------------------------------------------------------------
\* State
\* ------------------------------------------------------------------------
VARIABLES
    cfg,          \* the run's options: adapters, switches, ignore file
    src,          \* local file system
    remote,       \* remote file system
    mainPc,       \* position of the main thread (cli.main)
    mainErr,      \* exception leaving main, "none" if the run ends normally
    proc,         \* the session process: bash running RECEIVER_CODE
    pipe,         \* bytes written to the session's stdin and not yet read
    todo,         \* files replicate_all_files has still to visit
    copying,      \* per thread, the argument of the copy_file call in progress
    obs,          \* the watchdog observer thread
    queue,        \* change events not yet dispatched
    callLog,      \* every copy_file invocation so far
    lastDispatch, \* the latest event dispatched and what dispatching it did
    lastCopy,     \* the latest archive tool run and what copy_file made of it
    changes,      \* changes made by the user so far
    faults,       \* failed reads so far
    touched,      \* what the user did during the run: path and operation
    now,          \* time.time(), in whole units
    detect,       \* a call of detect_local_tar / detect_remote_tar in progress
    adapter       \* an adapter a caller constructs, and the calls made on it

vars == <<cfg, src, remote, mainPc, mainErr, proc, pipe, todo, copying, obs, queue,
          callLog, lastDispatch, lastCopy, changes, faults, touched, now, detect,
          adapter>>

\* dest_dir = os.path.join(dest_parent_dir, os.path.basename(src_dir))
dest_dir == cfg.destParent \o <<Last(SrcDir)>>

RECURSIVE SeqOf(_)
SeqOf(S) ==
    IF S = {} THEN <<>>
    ELSE LET x == CHOOSE y \in S : TRUE IN <<x>> \o SeqOf(S \ {x})

\* pathspec.util.iter_tree(src_dir): the files under the root, relative to it
iter_tree(fs) == {RelPath(p) : p \in {q \in DOMAIN fs : IsPrefix(SrcDir, q) /\ IsFile(fs, q)}}

NoEvent == [event_type |-> "none", is_directory |-> FALSE, src_path |-> NoPath,
            dest_path |-> NoPath]
Event(type, isDir, p, d) ==
    [event_type |-> type, is_directory |-> isDir, src_path |-> p, dest_path |-> d]

NoDispatch == [event |-> NoEvent, dropped |-> FALSE, called |-> NoPath]
NoCopy == [path |-> NoPath, by |-> "none", rc |-> 0, err |-> "", raised |-> "none",
           wrote |-> FALSE]

\* source trees a run can start from: some regular files, each with its
\* parent directories, and possibly an empty directory
InitTrees ==
    LET base == [q \in Prefixes(SrcDir) \ {<<>>} |-> DirKind]
        withFiles(F) ==
            LET dirs == UNION {Prefixes(AbsPath(Front(f))) \ {<<>>} : f \in F}
                files == {AbsPath(f) : f \in F}
            IN [q \in (DOMAIN base) \cup dirs \cup files |->
                   IF q \in files THEN "v1" ELSE DirKind]
    IN {withFiles(F) : F \in {G \in SUBSET FilePaths : Cardinality(G) <= MaxInitFiles}}
       \cup {MakeDirs(withFiles({}), AbsPath(d)) : d \in DirPaths}

\* the remote side before the run: only the parent directory, or a
\* destination directory left by an earlier run, holding a file of a name
\* the source does not use or a file of the name of a source directory
InitRemotes ==
    LET fresh == [q \in Prefixes(cfg.destParent) \ {<<>>} |-> DirKind]
    IN {fresh,
        Put(MakeDirs(fresh, dest_dir), dest_dir \o <<StaleName>>, "v1"),
        Put(MakeDirs(fresh, dest_dir), dest_dir \o <<DirName>>, "v1")}

\* replicate_files_on_change(..., timeout=None, ...): no timeout
NoTimeout == -1
\* the timeouts a caller supplies
Timeouts == {0, 1}

\* the options of a run; --no-gitignore is run against the full ignore file;
\* destParent is the dest_parent_dir argument.
\* timeout and signals are what the caller of replicate_files_on_change
\* passes: a timeout, and the keyword arguments observer_up_event and
\* terminate_event
Configs ==
    {c \in [localTar : {GnuTarAdapter(<<>>), BsdTarAdapter},
            remoteTar : {GnuTarAdapter(<<>>), NoAdapter},
            cleanFirst : BOOLEAN,
            withInitial : BOOLEAN,
            onChange : BOOLEAN,
            gitignore : BOOLEAN,
            ignoreFile : SUBSET Rules,
            timeout : Timeouts \cup {NoTimeout},
            signals : BOOLEAN,
            destParent : DestParents] :
        ~c.gitignore => c.ignoreFile = Rules}

NoProc == [state |-> "none", stdinOpen |-> FALSE, exitCode |-> 0, awaited |-> FALSE,
           cwd |-> <<>>, tar |-> <<>>]

NoObject == [request |-> [flavor |-> "none", given |-> FALSE, prefix |-> <<>>],
             state |-> "none", made |-> NoAdapter, results |-> <<>>]

NoDetect == [who |-> "none", acceptable |-> <<>>, probes |-> <<>>, state |-> "idle",
             result |-> NoAdapter]

\* nothing has run yet
Idle ==
    /\ mainPc = "start"
    /\ mainErr = "none"
    /\ proc = NoProc
    /\ pipe = <<>>
    /\ todo = <<>>
    /\ copying = [main |-> NoPath, obs |-> NoPath]
    /\ obs = [state |-> "none", stop |-> FALSE, last |-> 0]
    /\ queue = <<>>
    /\ callLog = <<>>
    /\ lastDispatch = NoDispatch
    /\ lastCopy = NoCopy
    /\ changes = 0
    /\ faults = 0
    /\ touched = {}
    /\ now = 0

\* a run of the command line tool: main calls replicate_files_on_change
\* with neither a timeout nor other keyword arguments (cli.py:169-171)
Init ==
    /\ cfg \in Configs
    /\ cfg.timeout = NoTimeout /\ ~cfg.signals
    /\ cfg.destParent = DestParent
    /\ src \in InitTrees
    /\ remote \in InitRemotes
    /\ (cfg.cleanFirst => Exists(remote, dest_dir))
    /\ Idle
    /\ detect = NoDetect
    /\ adapter = NoObject

\* ------------------------------------------------------------------------
\* cli.main, up to the session
\* ------------------------------------------------------------------------
\* cli.py:147-148: for a remote adapter that is no GnuTarAdapter the statement
\* click.UsageError("Cannot use non-gnu remote tar!") builds the exception;
\* there is no `raise` in front of it
UsageErrorRaised == FALSE
RemoteTarRejected(remote_tar) == remote_tar.flavor # "gnu" /\ UsageErrorRaised

Main_CheckRemote ==
    /\ mainPc = "start"
    /\ IF RemoteTarRejected(cfg.remoteTar)
       THEN mainPc' = "done" /\ mainErr' = "UsageError"
       ELSE mainPc' = "checked" /\ mainErr' = mainErr
    /\ UNCHANGED <<cfg, src, remote, proc, pipe, todo, copying, obs, queue, callLog,
                   lastDispatch, lastCopy, changes, faults, touched, now, detect,
                   adapter>>

\* RECEIVER_CODE.format(...), as written to the session's stdin
ReceiverScript(destDir, clean_out_first, receiver_tar) ==
    [kind |-> "script", clean |-> clean_out_first, dest |-> destDir, tar |-> receiver_tar,
     members |-> {}]

\* make_file_replicator up to the yield: the process is spawned first; the
\* script is formatted from remote_tar and written after that, outside the
\* try/finally that closes the session
Main_Open ==
    /\ mainPc = "checked"
    /\ proc' = [NoProc EXCEPT !.state = "script", !.stdinOpen = TRUE]
    /\ IF cfg.remoteTar = NoAdapter
       THEN /\ mainPc' = "done"
            /\ mainErr' = "AttributeError"
            /\ pipe' = pipe
       ELSE /\ mainPc' = "opened"
            /\ mainErr' = mainErr
            /\ pipe' = Append(pipe, ReceiverScript(PathText(dest_dir), cfg.cleanFirst,
                                                   receiver_cmd_str(cfg.remoteTar)))
    /\ UNCHANGED <<cfg, src, remote, todo, copying, obs, queue, callLog, lastDispatch,
                   lastCopy, changes, faults, touched, now, detect,
                   adapter>>

\* ------------------------------------------------------------------------
\* copy_file
\* ------------------------------------------------------------------------
\* lines 68-80: check=True raises on a nonzero exit status before stderr is
\* looked at; then any stderr text without "No such file or directory" raises
CopyRaised(res) ==
    IF res.err = "closed" THEN "ValueError"
    ELSE IF res.rc # 0 THEN "CalledProcessError"
    ELSE IF res.err # "" /\ res.err # "enoent" THEN "RuntimeError"
    ELSE "none"

\* the archive tool run for one copy_file(src_filename), stdout=p.stdin: when
\* p.stdin has been closed, subprocess.run raises ValueError (I/O operation
\* on closed file) and no tool runs (a close while the tool runs is taken as
\* a close before it); when the session process has gone, the tool dies of
\* SIGPIPE on its first write
CopyTar(src_filename, fault) ==
    LET rel_src_filename == RelPath(src_filename)
        res == TarCreate(sender_cmd(cfg.localTar, JoinPath(rel_src_filename)), src, SrcDir,
                         fault)
    IN IF proc.state # "none" /\ ~proc.stdinOpen
       THEN [rc |-> 0, err |-> "closed", out |-> NoOutput]
       ELSE IF proc.state = "exited" /\ res.out # NoOutput
       THEN [rc |-> -13, err |-> res.err, out |-> NoOutput]
       ELSE res

Archive(members) ==
    [kind |-> "archive", clean |-> FALSE, dest |-> <<>>, tar |-> <<>>, members |-> members]

CopyBegin(thread, by, src_filename) ==
    /\ copying' = [copying EXCEPT ![thread] = src_filename]
    /\ callLog' = Append(callLog, [by |-> by, path |-> src_filename])

\* the reads that may fail in this step: at most MaxFaults in a run, and only
\* where the tool would otherwise have read the entry
Faults(src_filename) ==
    {FALSE} \cup (IF faults < MaxFaults /\ CopyTar(src_filename, FALSE).err = ""
                  THEN {TRUE} ELSE {})

CopyRun(thread, by, fault) ==
    LET res == CopyTar(copying[thread], fault)
    IN /\ pipe' = IF res.out = NoOutput THEN pipe ELSE Append(pipe, Archive(res.out))
       /\ lastCopy' = [path |-> copying[thread], by |-> by, rc |-> res.rc, err |-> res.err,
                       raised |-> CopyRaised(res), wrote |-> res.out # NoOutput]
       /\ copying' = [copying EXCEPT ![thread] = NoPath]
       /\ faults' = IF fault THEN faults + 1 ELSE faults

\* ------------------------------------------------------------------------
\* replicate_all_files
\* ------------------------------------------------------------------------
\* line 104: the path relative to src_dir, as iter_tree yields it, is tested
BulkSkips(filename) ==
    match_file(get_pathspec(cfg.ignoreFile, cfg.gitignore), filename)

\* a main that started the observer before the bulk phase
Main_BulkStartWatching ==
    /\ mainPc = "opened"
    /\ IF cfg.withInitial
       THEN mainPc' = "bulk" /\ todo' = SeqOf(iter_tree(src))
       ELSE mainPc' = "bulked" /\ todo' = todo
    /\ obs' = IF cfg.onChange THEN [state |-> "running", stop |-> FALSE, last |-> now]
              ELSE obs
    /\ UNCHANGED <<cfg, src, remote, mainErr, proc, pipe, copying, queue, callLog,
                   lastDispatch, lastCopy, changes, faults, touched, now, detect,
                   adapter>>

\* iter_tree is consumed lazily; the model takes the listing when the loop
\* starts
Main_BulkStart ==
    /\ mainPc = "opened"
    /\ IF cfg.withInitial
       THEN mainPc' = "bulk" /\ todo' = SeqOf(iter_tree(src))
       ELSE mainPc' = "bulked" /\ todo' = todo
    /\ UNCHANGED <<cfg, src, remote, mainErr, proc, pipe, copying, obs, queue, callLog,
                   lastDispatch, lastCopy, changes, faults, touched, now, detect,
                   adapter>>

\* one turn of the loop, up to the start of the archive tool
Main_BulkNext ==
    /\ mainPc = "bulk"
    /\ copying.main = NoPath
    /\ IF todo = <<>>
       THEN mainPc' = "bulked" /\ UNCHANGED <<todo, copying, callLog>>
       ELSE IF BulkSkips(Head(todo))
       THEN todo' = Tail(todo) /\ UNCHANGED <<mainPc, copying, callLog>>
       ELSE /\ CopyBegin("main", "bulk", AbsPath(Head(todo)))
            /\ todo' = Tail(todo)
            /\ mainPc' = mainPc
    /\ UNCHANGED <<cfg, src, remote, mainErr, proc, pipe, obs, queue, lastDispatch,
                   lastCopy, changes, faults, touched, now, detect,
                   adapter>>

\* the archive tool has run; an exception leaves the with-block
Main_BulkCopied ==
    /\ mainPc = "bulk"
    /\ copying.main # NoPath
    /\ \E fault \in Faults(copying.main) :
          /\ CopyRun("main", "bulk", fault)
          /\ LET raised == CopyRaised(CopyTar(copying.main, fault))
             IN IF raised = "none"
                THEN mainPc' = mainPc /\ mainErr' = mainErr
                ELSE mainPc' = "closing" /\ mainErr' = raised
    /\ UNCHANGED <<cfg, src, remote, proc, todo, obs, queue, callLog, lastDispatch,
                   changes, touched, now, detect,
                   adapter>>

\* ------------------------------------------------------------------------
\* replicate_files_on_change and the event handlers
\* ------------------------------------------------------------------------
\* the keyword arguments replicate_files_on_change takes (lines 162-164)
Keywords == {"timeout", "use_gitignore", "debugging"}

\* the keyword arguments of the call
Passed(c) ==
    {"use_gitignore", "debugging"}
        \cup (IF c.timeout # NoTimeout THEN {"timeout"} ELSE {})
        \cup (IF c.signals THEN {"observer_up_event", "terminate_event"} ELSE {})

\* the call of replicate_files_on_change: a keyword the function does not
\* take raises TypeError before its body runs; else the handler is created
\* (last_event_timestamp = time.time()), observer.schedule(...) and
\* observer.start(): the subscription is live
Main_WatchStart ==
    /\ mainPc = "bulked"
    /\ IF ~cfg.onChange
       THEN mainPc' = "closing" /\ obs' = obs /\ mainErr' = mainErr
       ELSE IF ~(Passed(cfg) \subseteq Keywords)
       THEN mainPc' = "closing" /\ obs' = obs /\ mainErr' = "TypeError"
       ELSE /\ mainPc' = "watch"
            /\ obs' = [state |-> "running", stop |-> FALSE, last |-> now]
            /\ mainErr' = mainErr
    /\ UNCHANGED <<cfg, src, remote, proc, pipe, todo, copying, queue, callLog,
                   lastDispatch, lastCopy, changes, faults, touched, now, detect,
                   adapter>>

\* a dispatch that tested the primary path alone
DispatchDropsPrimaryOnly(spec, event) == match_file(spec, event.src_path)

\* GitIgnoreCopyFileEventHandler.dispatch: the event's paths, as delivered,
\* are tested against the matcher
DispatchDrops(spec, event) ==
    \/ match_file(spec, event.src_path)
    \/ (event.event_type = "moved" /\ match_file(spec, event.dest_path))

\* a handler that copied the path a move started from
on_any_event_primary(event) ==
    IF event.event_type = "deleted" THEN NoPath
    ELSE IF event.is_directory /\ event.event_type = "modified" THEN NoPath
    ELSE event.src_path

\* a handler that copied a directory whenever it was reported as modified
on_any_event_dirs(event) ==
    IF event.event_type = "deleted" THEN NoPath
    ELSE IF event.event_type = "moved" THEN event.dest_path
    ELSE event.src_path

\* CopyFileEventHandler.on_any_event: the path handed to copy_file, NoPath
\* when the event causes no call
on_any_event(event) ==
    IF event.event_type = "deleted" THEN NoPath
    ELSE IF event.is_directory /\ event.event_type = "modified" THEN NoPath
    ELSE IF event.event_type = "moved" THEN event.dest_path
    ELSE event.src_path

\* the handler replicate_files_on_change installs: with use_gitignore the
\* filtering one, else the plain one
WatchDrops(event) ==
    cfg.gitignore /\ DispatchDrops(get_pathspec(cfg.ignoreFile, cfg.gitignore), event)

HandlerCall(event) == IF WatchDrops(event) THEN NoPath ELSE on_any_event(event)

\* the observer thread takes one event and dispatches it, up to the start of
\* the archive tool; on_any_event begins with last_event_timestamp =
\* time.time()
Obs_Dispatch ==
    /\ obs.state = "running"
    /\ ~obs.stop
    /\ copying.obs = NoPath
    /\ queue # <<>>
    /\ LET event == Head(queue)
           called == HandlerCall(event)
       IN /\ queue' = Tail(queue)
          /\ lastDispatch' =
                [event |-> event, dropped |-> WatchDrops(event), called |-> called]
          /\ obs' = IF WatchDrops(event) THEN obs ELSE [obs EXCEPT !.last = now]
          /\ IF called = NoPath
             THEN UNCHANGED <<copying, callLog>>
             ELSE CopyBegin("obs", "watch", called)
    /\ UNCHANGED <<cfg, src, remote, mainPc, mainErr, proc, pipe, todo, lastCopy,
                   changes, faults, touched, now, detect,
                   adapter>>

\* the archive tool has run in the observer thread; an exception raised by
\* copy_file ends that thread, and only that thread
Obs_Copied ==
    /\ obs.state = "running"
    /\ copying.obs # NoPath
    /\ \E fault \in Faults(copying.obs) :
          /\ CopyRun("obs", "watch", fault)
          /\ IF CopyRaised(CopyTar(copying.obs, fault)) = "none"
             THEN obs' = obs
             ELSE obs' = [obs EXCEPT !.state = "dead"]
    /\ UNCHANGED <<cfg, src, remote, mainPc, mainErr, proc, todo, queue, callLog,
                   lastDispatch, changes, touched, now, detect,
                   adapter>>

\* observer.stop() has been called: the thread leaves its loop
Obs_Stop ==
    /\ obs.state = "running"
    /\ obs.stop
    /\ copying.obs = NoPath
    /\ obs' = [obs EXCEPT !.state = "stopped"]
    /\ UNCHANGED <<cfg, src, remote, mainPc, mainErr, proc, pipe, todo, copying, queue,
                   callLog, lastDispatch, lastCopy, changes, faults, touched, now,
                   detect,
                   adapter>>

\* KeyboardInterrupt in the main thread inside replicate_files_on_change: it
\* is caught and the observer is told to stop
Env_InterruptWatch ==
    /\ mainPc = "watch"
    /\ mainPc' = "joining"
    /\ obs' = [obs EXCEPT !.stop = TRUE]
    /\ UNCHANGED <<cfg, src, remote, mainErr, proc, pipe, todo, copying, queue, callLog,
                   lastDispatch, lastCopy, changes, faults, touched, now, detect,
                   adapter>>

\* KeyboardInterrupt inside replicate_all_files: it leaves the with-block
Env_InterruptBulk ==
    /\ mainPc = "bulk"
    /\ copying.main = NoPath
    /\ mainPc' = "closing"
    /\ mainErr' = "KeyboardInterrupt"
    /\ UNCHANGED <<cfg, src, remote, proc, pipe, todo, copying, obs, queue, callLog,
                   lastDispatch, lastCopy, changes, faults, touched, now, detect,
                   adapter>>

\* KeyboardInterrupt in the main thread while observer.join() waits for the
\* observer thread: line 191 is outside the try, the exception leaves
\* replicate_files_on_change and the with-block
Env_InterruptJoin ==
    /\ mainPc = "joining"
    /\ obs.state = "running"
    /\ mainPc' = "closing"
    /\ mainErr' = "KeyboardInterrupt"
    /\ UNCHANGED <<cfg, src, remote, proc, pipe, todo, copying, obs, queue, callLog,
                   lastDispatch, lastCopy, changes, faults, touched, now, detect,
                   adapter>>

\* observer.join()
Main_Join ==
    /\ mainPc = "joining"
    /\ obs.state \in {"stopped", "dead"}
    /\ mainPc' = "closing"
    /\ UNCHANGED <<cfg, src, remote, mainErr, proc, pipe, todo, copying, obs, queue,
                   callLog, lastDispatch, lastCopy, changes, faults, touched, now,
                   detect,
                   adapter>>

\* ------------------------------------------------------------------------
\* closing the session (the finally clause of make_file_replicator)
\* ------------------------------------------------------------------------
Main_CloseStdin ==
    /\ mainPc = "closing"
    /\ proc' = [proc EXCEPT !.stdinOpen = FALSE]
    /\ mainPc' = "waiting"
    /\ UNCHANGED <<cfg, src, remote, mainErr, pipe, todo, copying, obs, queue, callLog,
                   lastDispatch, lastCopy, changes, faults, touched, now, detect,
                   adapter>>

\* a close that checked the exit status, as subprocess.run(check=True) does
WaitResultChecked(err, exitCode) ==
    IF exitCode # 0 /\ err = "none" THEN "SessionFailure" ELSE err

\* p.wait(): the exit status it returns is dropped
WaitResult(err, exitCode) == err

Main_Wait ==
    /\ mainPc = "waiting"
    /\ proc.state = "exited"
    /\ proc' = [proc EXCEPT !.awaited = TRUE]
    /\ mainErr' = WaitResult(mainErr, proc.exitCode)
    /\ mainPc' = "done"
    /\ UNCHANGED <<cfg, src, remote, pipe, todo, copying, obs, queue, callLog,
                   lastDispatch, lastCopy, changes, faults, touched, now, detect,
                   adapter>>

\* ------------------------------------------------------------------------
\* The session process: bash reading RECEIVER_CODE and then the archives
\* from its stdin
\* ------------------------------------------------------------------------
\* a script that removed what the destination holds whatever the option said
SetupWipesAlways(sc) == TRUE

\* if {clean_out_first}; then ... fi
SetupWipes(sc) == sc.clean

\* bash has the script in its input and has not run it yet
SetupReady == proc.state = "script" /\ pipe # <<>> /\ Head(pipe).kind = "script"

\* set -e; [rm -rf dest/*]; mkdir -p dest; cd dest.  {dest_dir} stands in the
\* script unquoted, so bash splits it into words: rm -rf removes every word
\* but the last whole and what is below the last, mkdir -p makes every word,
\* and a cd with more than one word fails (bash 4.4 and later; set -e ends
\* the shell) or goes to the first word (earlier versions)
Proc_Setup ==
    /\ SetupReady
    /\ \E ws \in {ShellWords(Head(pipe).dest, <<>>)} :
       \E paths \in {[i \in 1..Len(ws) |-> WordPath(ws[i], RemoteHome)]} :
          LET sc == Head(pipe)
              doomed == {q \in DOMAIN remote :
                            \/ \E i \in 1..(Len(ws) - 1) : IsPrefix(paths[i], q)
                            \/ q \in Below(remote, paths[Len(ws)])}
              wiped == IF SetupWipes(sc) THEN Drop(remote, doomed) ELSE remote
          IN /\ remote' = MakeAll(wiped, paths)
             /\ \E lenient \in (IF Len(ws) > 1 THEN BOOLEAN ELSE {TRUE}) :
                   IF lenient
                   THEN /\ proc' = [proc EXCEPT !.state = "loop", !.cwd = paths[1],
                                                !.tar = sc.tar]
                        /\ pipe' = Tail(pipe)
                   ELSE /\ proc' = [proc EXCEPT !.state = "exited", !.exitCode = 1]
                        /\ pipe' = <<>>
    /\ UNCHANGED <<cfg, src, mainPc, mainErr, todo, copying, obs, queue, callLog,
                   lastDispatch, lastCopy, changes, faults, touched, now, detect,
                   adapter>>

\* one turn of `while true; do tar --extract; done` under set -e: a tar that
\* fails ends the shell with tar's status, and what is left in the pipe is
\* read by nobody
Proc_Extract ==
    /\ proc.state = "loop"
    /\ pipe # <<>>
    /\ Head(pipe).kind = "archive"
    /\ IF ExtractFails(remote, proc.cwd, Head(pipe).members)
       THEN /\ remote' = remote
            /\ pipe' = <<>>
            /\ proc' = [proc EXCEPT !.state = "exited", !.exitCode = 2]
       ELSE /\ remote' = TarExtract(remote, proc.cwd, Head(pipe).members)
            /\ pipe' = Tail(pipe)
            /\ proc' = proc
    /\ UNCHANGED <<cfg, src, mainPc, mainErr, todo, copying, obs, queue, callLog,
                   lastDispatch, lastCopy, changes, faults, touched, now, detect,
                   adapter>>

\* a receiver without set -e: at the end of input tar fails in the loop, the
\* loop goes round again, and only a shell that has not got its script ends
Proc_EofLooping ==
    /\ proc.state = "script"
    /\ pipe = <<>>
    /\ (~proc.stdinOpen \/ mainPc = "done")
    /\ proc' = [proc EXCEPT !.state = "exited", !.exitCode = 0]
    /\ UNCHANGED <<cfg, src, remote, mainPc, mainErr, pipe, todo, copying, obs, queue,
                   callLog, lastDispatch, lastCopy, changes, faults, touched, now,
                   detect,
                   adapter>>

\* end of input: the program has closed the pipe, or has ended and the
\* system closed it.  In the loop tar fails on the empty input and set -e ends
\* the shell with tar's status; before the script arrived bash just ends.
Proc_Eof ==
    /\ proc.state \in {"script", "loop"}
    /\ pipe = <<>>
    /\ (~proc.stdinOpen \/ mainPc = "done")
    /\ proc' = [proc EXCEPT !.state = "exited",
                            !.exitCode = IF proc.state = "loop" THEN 2 ELSE 0]
    /\ UNCHANGED <<cfg, src, remote, mainPc, mainErr, pipe, todo, copying, obs, queue,
                   callLog, lastDispatch, lastCopy, changes, faults, touched, now,
                   detect,
                   adapter>>

\* ------------------------------------------------------------------------
\* The inactivity timeout of replicate_files_on_change
\* ------------------------------------------------------------------------
\* time passes while the main thread is in the watch loop
Tick ==
    /\ mainPc = "watch"
    /\ now < MaxTime
    /\ now' = now + 1
    /\ UNCHANGED <<cfg, src, remote, mainPc, mainErr, proc, pipe, todo, copying, obs, queue,
                   callLog, lastDispatch, lastCopy, changes, faults, touched, detect,
                   adapter>>

\* raise_if_timeout(last_change, timeout): elapsed > timeout
raise_if_timeout(last_change, timeout) == now - last_change > timeout

\* `if timeout:` (line 184): None and 0 are both false
TimeoutChecked(timeout) == timeout # NoTimeout /\ timeout # 0

\* a turn of the watch loop in which NoChangeTimeoutError is raised and
\* caught: observer.stop().  A turn that raises nothing sleeps and changes
\* nothing.
Main_Timeout ==
    /\ mainPc = "watch"
    /\ TimeoutChecked(cfg.timeout)
    /\ raise_if_timeout(obs.last, cfg.timeout)
    /\ mainPc' = "joining"
    /\ obs' = [obs EXCEPT !.stop = TRUE]
    /\ UNCHANGED <<cfg, src, remote, mainErr, proc, pipe, todo, copying, queue, callLog,
                   lastDispatch, lastCopy, changes, faults, touched, now, detect,
                   adapter>>

\* ------------------------------------------------------------------------
\* detect_local_tar / detect_remote_tar, one probe at a time
\* ------------------------------------------------------------------------
Detect_Probe ==
    /\ detect.state = "probing"
    /\ Len(detect.probes) < Len(detect.acceptable)
    /\ \E probe \in Probes :
          LET tar_flavor == detect.acceptable[Len(detect.probes) + 1]
              step == IF detect.who = "local"
                      THEN detect_local_step(tar_flavor, probe)
                      ELSE detect_remote_step(tar_flavor, probe)
          IN detect' = [detect EXCEPT
                           !.probes = Append(detect.probes, probe),
                           !.state = CASE step = "continue" -> "probing"
                                       [] step = "return" -> "returned"
                                       [] OTHER -> step,
                           !.result = IF step = "return" THEN tar_flavor ELSE NoAdapter]
    /\ UNCHANGED <<cfg, src, remote, mainPc, mainErr, proc, pipe, todo, copying, obs, queue,
                   callLog, lastDispatch, lastCopy, changes, faults, touched, now, adapter>>

\* the loop is over: return None
Detect_None ==
    /\ detect.state = "probing"
    /\ Len(detect.probes) = Len(detect.acceptable)
    /\ detect' = [detect EXCEPT !.state = "returned", !.result = NoAdapter]
    /\ UNCHANGED <<cfg, src, remote, mainPc, mainErr, proc, pipe, todo, copying, obs, queue,
                   callLog, lastDispatch, lastCopy, changes, faults, touched, now, adapter>>

\* ------------------------------------------------------------------------
\* A caller constructing an adapter and asking it for its commands
\* ------------------------------------------------------------------------
Adapter_New ==
    /\ adapter.state = "requested"
    /\ LET made == Construct(adapter.request)
       IN adapter' = [adapter EXCEPT !.state = IF made.err = "none" THEN "made" ELSE made.err,
                                     !.made = made.obj]
    /\ UNCHANGED <<cfg, src, remote, mainPc, mainErr, proc, pipe, todo, copying, obs, queue,
                   callLog, lastDispatch, lastCopy, changes, faults, touched, now, detect>>

\* tar.sender_cmd(src_file): every call builds a new list
Adapter_SenderCmd ==
    /\ adapter.state = "made"
    /\ Len(adapter.results) < MaxCalls
    /\ \E f \in FilePaths :
          adapter' = [adapter EXCEPT !.results =
                         Append(@, [fn |-> "sender_cmd", arg |-> JoinPath(f),
                                    ret |-> sender_cmd(adapter.made, JoinPath(f))])]
    /\ UNCHANGED <<cfg, src, remote, mainPc, mainErr, proc, pipe, todo, copying, obs, queue,
                   callLog, lastDispatch, lastCopy, changes, faults, touched, now, detect>>

\* tar.receiver_cmd()
Adapter_ReceiverCmd ==
    /\ adapter.state = "made"
    /\ Len(adapter.results) < MaxCalls
    /\ adapter' = [adapter EXCEPT !.results =
                       Append(@, [fn |-> "receiver_cmd", arg |-> <<>>,
                                  ret |-> receiver_cmd(adapter.made)])]
    /\ UNCHANGED <<cfg, src, remote, mainPc, mainErr, proc, pipe, todo, copying, obs, queue,
                   callLog, lastDispatch, lastCopy, changes, faults, touched, now, detect>>

\* ------------------------------------------------------------------------
\* The user editing the source tree while the run goes on, and the change
\* events the file system reports while the subscription is live
\* ------------------------------------------------------------------------
Editing == mainPc \in {"bulk", "watch"} /\ changes < MaxChanges
Watching == mainPc = "watch" /\ changes < MaxChanges

Emit(events) ==
    queue' = IF obs.state = "running" /\ ~obs.stop THEN queue \o events ELSE queue

\* a file is written: created with its missing directories, or its content
\* replaced by the other one.  A new file is reported as created and, for the
\* write of its content, as modified.
User_Write ==
    /\ Watching
    /\ \E f \in FilePaths :
          LET p == AbsPath(f)
              c == IF Exists(src, p) /\ src[p] = "v1" THEN "v2" ELSE "v1"
              missing(d) == ~Exists(src, d)
              newDirs == SelectSeq([i \in 1..(Len(f) - 1) |-> AbsPath(SubSeq(f, 1, i))],
                                   missing)
              dirEvents == [i \in 1..Len(newDirs) |->
                               Event("created", TRUE, newDirs[i], NoPath)]
          IN /\ src' = Put(MakeDirs(src, Front(p)), p, c)
             /\ IF Exists(src, p)
                THEN Emit(<<Event("modified", FALSE, p, NoPath)>>)
                ELSE Emit(dirEvents \o <<Event("created", FALSE, p, NoPath),
                                         Event("modified", TRUE, Front(p), NoPath),
                                         Event("modified", FALSE, p, NoPath)>>)
             /\ touched' = touched \cup {[path |-> p, op |-> "written"]}
    /\ changes' = changes + 1
    /\ UNCHANGED <<cfg, remote, mainPc, mainErr, proc, pipe, todo, copying, obs, callLog,
                   lastDispatch, lastCopy, faults, now, detect,
                   adapter>>

User_Delete ==
    /\ Editing
    /\ \E f \in FilePaths :
          /\ IsFile(src, AbsPath(f))
          /\ src' = Drop(src, {AbsPath(f)})
          /\ Emit(<<Event("deleted", FALSE, AbsPath(f), NoPath)>>)
          /\ touched' = touched \cup {[path |-> AbsPath(f), op |-> "deleted"]}
    /\ changes' = changes + 1
    /\ UNCHANGED <<cfg, remote, mainPc, mainErr, proc, pipe, todo, copying, obs, callLog,
                   lastDispatch, lastCopy, faults, now, detect,
                   adapter>>

\* a file is renamed into an existing directory
User_Move ==
    /\ Watching
    /\ \E f \in FilePaths, g \in FilePaths :
          /\ IsFile(src, AbsPath(f))
          /\ ~Exists(src, AbsPath(g))
          /\ IsDir(src, Front(AbsPath(g)))
          /\ src' = Put(Drop(src, {AbsPath(f)}), AbsPath(g), src[AbsPath(f)])
          /\ Emit(<<Event("moved", FALSE, AbsPath(f), AbsPath(g))>>)
          /\ touched' = touched \cup {[path |-> AbsPath(f), op |-> "moved"],
                                     [path |-> AbsPath(g), op |-> "moved"]}
    /\ changes' = changes + 1
    /\ UNCHANGED <<cfg, remote, mainPc, mainErr, proc, pipe, todo, copying, obs, callLog,
                   lastDispatch, lastCopy, faults, now, detect,
                   adapter>>

User_Mkdir ==
    /\ Editing
    /\ \E d \in DirPaths :
          /\ ~Exists(src, AbsPath(d))
          /\ IsDir(src, Front(AbsPath(d)))
          /\ src' = Put(src, AbsPath(d), DirKind)
          /\ Emit(<<Event("created", TRUE, AbsPath(d), NoPath)>>)
    /\ touched' = touched
    /\ changes' = changes + 1
    /\ UNCHANGED <<cfg, remote, mainPc, mainErr, proc, pipe, todo, copying, obs, callLog,
                   lastDispatch, lastCopy, faults, now, detect,
                   adapter>>

\* ------------------------------------------------------------------------
\* Specification
\* ------------------------------------------------------------------------
Next ==
    \/ Main_CheckRemote
    \/ Main_Open
    \/ Main_BulkStart
    \/ Main_BulkNext
    \/ Main_BulkCopied
    \/ Main_WatchStart
    \/ Main_Join
    \/ Main_CloseStdin
    \/ Main_Wait
    \/ Obs_Dispatch
    \/ Obs_Copied
    \/ Obs_Stop
    \/ Proc_Setup
    \/ Proc_Extract
    \/ Proc_Eof
    \/ Env_InterruptWatch
    \/ Env_InterruptJoin
    \/ Env_InterruptBulk
    \/ User_Write
    \/ User_Delete
    \/ User_Move
    \/ User_Mkdir

Spec == Init /\ [][Next]_vars

\* runs of the bulk phase alone (--no-replicate-on-change)
BulkInit == Init /\ cfg.withInitial /\ ~cfg.onChange

BulkNext ==
    \/ Main_CheckRemote
    \/ Main_Open
    \/ Main_BulkStart
    \/ Main_BulkNext
    \/ Main_BulkCopied
    \/ Main_WatchStart
    \/ Main_CloseStdin
    \/ Main_Wait
    \/ Proc_Setup
    \/ Proc_Extract
    \/ Proc_Eof
    \/ Env_InterruptBulk
    \/ User_Delete

BulkSpec == BulkInit /\ [][BulkNext]_vars

\* the same runs from a tree of at most one file, with a session process
\* that keeps running (bash reads its input as it comes) and a p.wait() that
\* returns once the process has ended
BulkFairInit == BulkInit /\ Cardinality(iter_tree(src)) <= 1

BulkFairSpec ==
    /\ BulkFairInit
    /\ [][BulkNext]_vars
    /\ WF_vars(Proc_Setup)
    /\ WF_vars(Proc_Extract)
    /\ WF_vars(Proc_Eof)
    /\ WF_vars(Main_Wait)

\* runs of the watch phase with GNU tar on both sides, into a fresh
\* destination, from a tree of at most one file, with an ignore file that
\* holds every rule (used, or left aside with --no-gitignore)
WatchBase ==
    /\ cfg.remoteTar.flavor = "gnu" /\ cfg.localTar.flavor = "gnu"
    /\ cfg.ignoreFile = Rules
    /\ ~cfg.cleanFirst /\ ~Exists(remote, dest_dir)
    /\ Cardinality(iter_tree(src)) <= 1

WatchInit ==
    /\ Init
    /\ cfg.onChange /\ ~cfg.withInitial
    /\ WatchBase

WatchNext ==
    \/ Main_CheckRemote
    \/ Main_Open
    \/ Main_BulkStart
    \/ Main_WatchStart
    \/ Main_Join
    \/ Main_CloseStdin
    \/ Main_Wait
    \/ Obs_Dispatch
    \/ Obs_Copied
    \/ Obs_Stop
    \/ Proc_Setup
    \/ Proc_Extract
    \/ Proc_Eof
    \/ Env_InterruptWatch
    \/ Env_InterruptJoin
    \/ User_Write
    \/ User_Delete
    \/ User_Move
    \/ User_Mkdir

WatchSpec == WatchInit /\ [][WatchNext]_vars

\* a session that is opened and closed with no copy_file call in between
\* (test_empty_directories_are_copied), for either destination parent, which
\* may not exist yet
SessionInit ==
    /\ cfg \in Configs
    /\ cfg.timeout = NoTimeout /\ ~cfg.signals
    /\ ~cfg.withInitial /\ ~cfg.onChange
    /\ cfg.localTar.flavor = "gnu"
    /\ cfg.gitignore /\ cfg.ignoreFile = {}
    /\ src \in InitTrees
    /\ remote \in InitRemotes \cup {[q \in {} |-> DirKind]}
    /\ Idle
    /\ detect = NoDetect
    /\ adapter = NoObject

SessionNext ==
    \/ Main_CheckRemote
    \/ Main_Open
    \/ Main_BulkStart
    \/ Main_WatchStart
    \/ Main_CloseStdin
    \/ Main_Wait
    \/ Proc_Setup
    \/ Proc_Eof

SessionSpec == SessionInit /\ [][SessionNext]_vars

\* runs of both phases into a destination an earlier run has left, with and
\* without --clean-out-first, from a tree of one file in the source root
WipeInit ==
    /\ Init
    /\ cfg.withInitial /\ cfg.onChange
    /\ cfg.remoteTar.flavor = "gnu" /\ cfg.localTar.flavor = "gnu"
    /\ cfg.gitignore /\ cfg.ignoreFile = {}
    /\ Exists(remote, dest_dir)
    /\ iter_tree(src) \in {{<<n>>} : n \in FileNames}

WipeSpec == WipeInit /\ [][Next]_vars

\* runs of both phases, one after the other, from a tree of at most one file
TwoPhaseInit ==
    /\ Init
    /\ cfg.withInitial /\ cfg.onChange
    /\ WatchBase

TwoPhaseSpec == TwoPhaseInit /\ [][Next]_vars

\* replicate_files_on_change called as a library function, inside a session,
\* with a timeout or with the keyword arguments of the tests
LibInit ==
    /\ cfg \in Configs
    /\ (cfg.timeout # NoTimeout \/ cfg.signals)
    /\ cfg.destParent = DestParent
    /\ cfg.onChange /\ ~cfg.withInitial
    /\ src \in InitTrees
    /\ remote \in InitRemotes
    /\ WatchBase
    /\ Idle
    /\ detect = NoDetect
    /\ adapter = NoObject

LibNext ==
    \/ WatchNext
    \/ Tick
    \/ Main_Timeout

LibSpec == LibInit /\ [][LibNext]_vars

\* the watch loop looks at the clock every half second
LibFairSpec == LibInit /\ [][LibNext]_vars /\ WF_vars(Main_Timeout)

\* the detection functions called on their own, before any session
DetectInit ==
    /\ cfg \in Configs
    /\ cfg.localTar.flavor = "gnu" /\ cfg.remoteTar.flavor = "gnu"
    /\ ~cfg.cleanFirst /\ cfg.withInitial /\ cfg.onChange /\ cfg.gitignore
    /\ cfg.ignoreFile = {}
    /\ cfg.timeout = NoTimeout /\ ~cfg.signals
    /\ cfg.destParent = DestParent
    /\ src = [q \in Prefixes(SrcDir) \ {<<>>} |-> DirKind]
    /\ remote = [q \in Prefixes(DestParent) \ {<<>>} |-> DirKind]
    /\ Idle
    /\ adapter = NoObject
    /\ detect \in {[who |-> w, acceptable |-> a, probes |-> <<>>, state |-> "probing",
                     result |-> NoAdapter] :
                       w \in {"local", "remote"}, a \in {AllTars, GnuTars}}

DetectNext ==
    \/ Detect_Probe
    \/ Detect_None

DetectSpec == DetectInit /\ [][DetectNext]_vars

\* the adapter classes on their own: one constructor call, then calls of
\* sender_cmd and receiver_cmd on the object
AdapterInit ==
    /\ cfg \in Configs
    /\ cfg.localTar.flavor = "gnu" /\ cfg.remoteTar.flavor = "gnu"
    /\ ~cfg.cleanFirst /\ cfg.withInitial /\ cfg.onChange /\ cfg.gitignore
    /\ cfg.ignoreFile = {}
    /\ cfg.timeout = NoTimeout /\ ~cfg.signals
    /\ cfg.destParent = DestParent
    /\ src = [q \in Prefixes(SrcDir) \ {<<>>} |-> DirKind]
    /\ remote = [q \in Prefixes(DestParent) \ {<<>>} |-> DirKind]
    /\ Idle
    /\ detect = NoDetect
    /\ adapter \in {[NoObject EXCEPT !.request = r, !.state = "requested"] : r \in Requests}

AdapterNext ==
    \/ Adapter_New
    \/ Adapter_SenderCmd
    \/ Adapter_ReceiverCmd

AdapterSpec == AdapterInit /\ [][AdapterNext]_vars

\* ------------------------------------------------------------------------
\* Properties
\* ------------------------------------------------------------------------
Closed == mainPc = "done" /\ proc.awaited
Undisturbed == changes = 0 /\ faults = 0
Calls(by, path) == Cardinality({i \in 1..Len(callLog) : callLog[i] = [by |-> by, path |-> path]})
RemoteFiles == {q \in DOMAIN remote : IsFile(remote, q)}

\* C1: once the session is closed, every regular file copy_file was invoked on
\* (the tree left alone meanwhile) is at <destParent>/<basename(sourceDir)>/R
\* with the content of the source, below directories that all exist.
C1_CopiedFileAtDestination ==
    (Closed /\ Undisturbed) =>
        \A i \in 1..Len(callLog) :
            LET p == callLog[i].path
                q == DestParent \o <<Last(SrcDir)>> \o RelPath(p)
            IN IsFile(src, p) =>
                  /\ IsFile(remote, q)
                  /\ remote[q] = src[p]
                  /\ \A d \in Prefixes(Front(q)) \ {<<>>} : IsDir(remote, d)

\* C2: bulk replication (not interrupted) of an unchanging tree into a fresh
\* destination leaves there exactly the non-ignored regular files, contents
\* equal, and calls copy_file once for each of them and never for an ignored
\* file.
C2_BulkReplicatesExactly ==
    (Closed /\ Undisturbed /\ cfg.withInitial /\ ~cfg.onChange
       /\ mainErr # "KeyboardInterrupt"
       /\ ~Exists(remote, dest_dir \o <<StaleName>>)) =>
        LET spec == get_pathspec(cfg.ignoreFile, cfg.gitignore)
            keep == {f \in iter_tree(src) : ~match_file(spec, f)}
        IN /\ RemoteFiles = {dest_dir \o f : f \in keep}
           /\ \A f \in keep : remote[dest_dir \o f] = src[AbsPath(f)]
           /\ \A f \in iter_tree(src) :
                 Calls("bulk", AbsPath(f)) = IF f \in keep THEN 1 ELSE 0

\* the observer thread is the only one to take events off the queue
Dispatching == Len(queue') < Len(queue)

\* C3: an event that passes the filter causes no copy_file call when it is a
\* deletion or the modification of a directory, one call on the destination
\* path when it is a move, one call on its primary path otherwise.
C3_CallsPerEvent ==
    [][LET e == Head(queue)
           expected ==
               CASE e.event_type = "deleted" -> NoPath
                 [] e.event_type = "modified" /\ e.is_directory -> NoPath
                 [] e.event_type = "moved" -> e.dest_path
                 [] OTHER -> e.src_path
       IN (Dispatching /\ ~WatchDrops(e)) =>
             callLog' = IF expected = NoPath THEN callLog
                        ELSE Append(callLog, [by |-> "watch", path |-> expected])]_vars

C3_MovedEventCopied ==
    /\ lastDispatch.event.event_type = "moved"
    /\ ~lastDispatch.dropped
    /\ lastDispatch.called = lastDispatch.event.dest_path
    /\ Calls("watch", lastDispatch.event.dest_path) = 1

\* C4: an event whose primary path matches the ignore matcher, or a move whose
\* destination matches it, is dropped: dispatching it starts no copy_file call
\* and leaves the dispatching thread as it was.
C4_IgnoredEventDropped ==
    [][LET e == Head(queue)
           spec == get_pathspec(cfg.ignoreFile, cfg.gitignore)
       IN (Dispatching /\ (\/ match_file(spec, e.src_path)
                           \/ (e.event_type = "moved" /\ match_file(spec, e.dest_path)))) =>
             /\ callLog' = callLog
             /\ copying' = copying
             /\ obs' = obs]_vars

C4_MoveOntoIgnoredDropped ==
    /\ lastDispatch.event.event_type = "moved"
    /\ ~match_file(get_pathspec(cfg.ignoreFile, cfg.gitignore), lastDispatch.event.src_path)
    /\ match_file(get_pathspec(cfg.ignoreFile, cfg.gitignore), lastDispatch.event.dest_path)
    /\ lastDispatch.dropped
    /\ callLog = <<>>

\* C5: for a created or modified file, the watcher drops the event exactly
\* when the bulk replicator skips the file.
C5_PhasesAgree ==
    LET e == lastDispatch.event
    IN (e.event_type \in {"created", "modified"} /\ ~e.is_directory) =>
          (lastDispatch.dropped <=> BulkSkips(RelPath(e.src_path)))

\* C6: an archive tool run that reports "file not found", whatever its exit
\* status, makes copy_file return normally.
C6_VanishedFileTolerated ==
    lastCopy.err = "enoent" => lastCopy.raised = "none"

\* C7: once a copy_file call has met a diagnostic other than "file not
\* found", in the bulk phase or in the watcher, the run is being torn down.
C7_FatalDiagnosticAborts ==
    (lastCopy.err \notin {"", "enoent"}) => mainPc \in {"closing", "waiting", "done"}

\* C8: a session process exists only for a GNU-style remote adapter.
C8_SessionOnlyForGnuRemote ==
    proc.state # "none" => cfg.remoteTar.flavor = "gnu"

\* C9 (as stated): a nonzero exit status of the closed session is reported as a
\* session failure.
C9_ExitStatusReported ==
    (Closed /\ proc.exitCode # 0) => mainErr = "SessionFailure"

\* C9 (amended): closing waits for the session process and drops its exit
\* status: the wait leaves the outcome of the run as it was.
C9_ExitStatusDropped ==
    [][(mainPc = "waiting" /\ mainPc' = "done") => mainErr' = mainErr]_vars

C9_ClosedWithNonzeroStatus ==
    Closed /\ proc.exitCode # 0 /\ mainErr = "none"

\* C10: a run never ends with a spawned session process whose input the
\* program has not closed or which it has not awaited.
C10_SessionAlwaysTornDown ==
    (mainPc = "done" /\ proc.state # "none") => (~proc.stdinOpen /\ proc.awaited)

\* C11: no two copy_file invocations are in progress at once, the one of the
\* main thread (bulk phase) and the one of the observer thread (watcher).
C11_OneCopyAtATime ==
    ~(copying.main # NoPath /\ copying.obs # NoPath)

C11_WatchCopyAfterBulk ==
    /\ copying.obs # NoPath
    /\ \E i \in 1..Len(callLog) : callLog[i].by = "bulk"

\* more than the timeout has passed since the latest event reached the
\* handler (or since the handler was created)
TimedOut ==
    mainPc = "watch" /\ cfg.timeout # NoTimeout /\ now - obs.last > cfg.timeout

\* C12: with a timeout supplied, once more than the timeout has passed since
\* the latest dispatched event the watcher stops itself (unless an event is
\* dispatched first).
C12_TimeoutStopsWatcher ==
    TimedOut ~> ~TimedOut

\* C13: replicate_files_on_change takes a subscription-live signal and a stop
\* signal: a call that passes them is accepted.
C13_TakesSignals ==
    cfg.signals => mainErr # "TypeError"

\* paths the user wrote, deleted or moved; paths the user wrote
Touched == {t.path : t \in touched}

Written == {t.path : t \in {u \in touched : u.op = "written"}}

\* the observer was not stopped with events still waiting
DispatchedAll == obs.state = "stopped" => queue = <<>>

\* C14: when the watcher has stopped and the session is closed, every
\* non-ignored regular file created or modified during the watch phase (its
\* events dispatched, no tool failure) is at the destination with the content
\* last written, below directories that exist.
C14_ChangedFilesReplicated ==
    (Closed /\ cfg.onChange /\ faults = 0 /\ DispatchedAll) =>
        \A p \in Written :
            (IsFile(src, p) /\ ~BulkSkips(RelPath(p))) =>
                LET q == dest_dir \o RelPath(p)
                IN /\ IsFile(remote, q)
                   /\ remote[q] = src[p]
                   /\ \A d \in Prefixes(Front(q)) \ {<<>>} : IsDir(remote, d)

\* C15: without the bulk phase, a file that was there before the watcher
\* started and has not been touched is never passed to copy_file and is
\* absent at the destination.
C15_UntouchedFileNeverCopied ==
    ~cfg.withInitial =>
        \A p \in DOMAIN src :
            (IsFile(src, p) /\ p \notin Touched) =>
                /\ \A i \in 1..Len(callLog) : callLog[i].path # p
                /\ ~Exists(remote, dest_dir \o RelPath(p))

C15_OtherFileReplicated ==
    /\ \E p \in DOMAIN src : IsFile(src, p) /\ p \notin Touched
    /\ \E p \in Touched : IsFile(remote, dest_dir \o RelPath(p))

\* C16: a subdirectory of the source that holds no file, and in which no
\* file was ever written, deleted or moved, has no directory at the
\* destination.
C16_EmptyDirNotReplicated ==
    \A d \in DirPaths :
        (/\ IsDir(src, AbsPath(d))
         /\ \A q \in Below(src, AbsPath(d)) : IsDir(src, q)
         /\ \A q \in Touched : ~IsPrefix(AbsPath(d), q)) =>
            ~IsDir(remote, dest_dir \o d)

\* every member of the archive is at the destination already, as it is sent
AlreadyThere(fs, cwd, members) ==
    \A m \in members :
        LET q == cwd \o MemberPath(m.name)
        IN IF m.kind = "file" THEN IsFile(fs, q) /\ fs[q] = m.data ELSE IsDir(fs, q)

\* C17: copying a file that the destination already holds unchanged leaves
\* the destination as it is: same paths, same contents.
C17_RepeatedCopyChangesNothing ==
    [][(/\ proc.state = "loop"
        /\ Len(pipe') < Len(pipe)
        /\ Head(pipe).kind = "archive"
        /\ AlreadyThere(remote, proc.cwd, Head(pipe).members)) =>
            remote' = remote]_vars

C17_CopiedTwice ==
    \E p \in DOMAIN src :
        /\ IsFile(src, p)
        /\ Calls("watch", p) >= 2
        /\ pipe = <<>> /\ copying.obs = NoPath /\ obs.state = "running"
        /\ IsFile(remote, dest_dir \o RelPath(p))
        /\ remote[dest_dir \o RelPath(p)] = src[p]

\* the first candidate whose probe started, exited with status zero and
\* printed the candidate's flavor string; NoAdapter when there is none
Qualifies(tar_flavor, probe) ==
    probe.launch = "ok" /\ probe.rc = 0 /\ match_flavor_output(tar_flavor, probe.out)

FirstQualifying(acceptable, probes) ==
    LET ok == {i \in 1..Len(probes) : Qualifies(acceptable[i], probes[i])}
    IN IF ok = {} THEN NoAdapter
       ELSE acceptable[CHOOSE i \in ok : \A j \in ok : i <= j]

\* C18: detect_local_tar and detect_remote_tar alike return the first
\* candidate whose probe ran with exit status zero and printed the flavor
\* string, skipping the others, and None when there is none.
C18_FirstQualifyingCandidate ==
    detect.state = "returned" =>
        detect.result = FirstQualifying(detect.acceptable, detect.probes)

\* C19: in detect_remote_tar a probe process that could not be started ends
\* the detection with an error at once; None is returned only after every
\* candidate's probe ran and none printed its flavor string.
C19_LaunchFailureFatal ==
    detect.who = "remote" =>
        /\ \A i \in 1..Len(detect.probes) :
              detect.probes[i].launch # "ok" =>
                  /\ i = Len(detect.probes)
                  /\ detect.state \in {"RuntimeError", "PermissionError"}
        /\ (detect.state = "returned" /\ detect.result = NoAdapter) =>
              /\ Len(detect.probes) = Len(detect.acceptable)
              /\ \A i \in 1..Len(detect.probes) :
                    /\ detect.probes[i].launch = "ok"
                    /\ ~match_flavor_output(detect.acceptable[i], detect.probes[i].out)

C19_SecondProbeNotLaunched ==
    /\ detect.who = "remote"
    /\ Len(detect.probes) = 2
    /\ detect.probes[2].launch = "enoent"
    /\ detect.state = "RuntimeError"

C21_CloseEndsSession ==
    (mainPc = "waiting") ~> (mainPc = "done" /\ proc.state = "exited" /\ proc.awaited)

C21_WaitReturnedAfterCopies ==
    /\ mainPc = "done" /\ proc.awaited /\ proc.state = "exited"
    /\ mainErr = "none"
    /\ \E i \in 1..Len(callLog) : IsFile(remote, dest_dir \o RelPath(callLog[i].path))

\* C22: a path of the destination goes away only in the one step of the
\* receiver's script that runs before the loop, only when --clean-out-first
\* was given, and only below the destination directory; no other step, and
\* no local deletion, removes a path of the destination.
C22_OnlyWipeRemoves ==
    [][(\E p \in DOMAIN remote : p \notin DOMAIN remote') =>
          /\ cfg.cleanFirst
          /\ proc.state = "script" /\ proc'.state = "loop"
          /\ \A p \in (DOMAIN remote) \ (DOMAIN remote') :
                IsPrefix(dest_dir, p) /\ p # dest_dir]_vars

C22_DeletedFileStays ==
    /\ ~cfg.cleanFirst
    /\ lastDispatch.event.event_type = "deleted"
    /\ ~Exists(src, lastDispatch.event.src_path)
    /\ IsFile(remote, dest_dir \o RelPath(lastDispatch.event.src_path))
    /\ Below(remote, dest_dir) \ {dest_dir \o RelPath(lastDispatch.event.src_path)} # {}

\* C23: after a session was opened and closed with no copy_file call, the
\* destination parent holds the destination directory, named after the last
\* name of the source directory, and every ancestor of it exists; the source
\* tree is never changed.
C23_SessionCreatesDestination ==
    /\ []((mainPc = "done" /\ proc.awaited /\ mainErr = "none" /\ callLog = <<>>) =>
            \A d \in Prefixes(cfg.destParent \o <<Last(SrcDir)>>) \ {<<>>} :
                IsDir(remote, d))
    /\ [][src' = src]_vars

\* the token lists the claim gives for the GNU and the BSD variant
ClaimedCmd(flavor, prefix, fn, path) ==
    CASE flavor = "gnu" /\ fn = "sender_cmd" ->
             <<prefix \o tTar, oCreate, path, oToStdout, oIgnoreFailedRead>>
      [] flavor = "gnu" /\ fn = "receiver_cmd" ->
             <<prefix \o tTar, oNoSameOwner, oExtract, oVerbose>>
      [] flavor = "bsd" /\ fn = "sender_cmd" ->
             <<prefix \o tTar, <<"-", "c">>, <<"-", "f">>, <<"-">>, path>>
      [] flavor = "bsd" /\ fn = "receiver_cmd" ->
             <<prefix \o tTar, <<"-", "o">>, <<"-", "x">>, <<"-", "v">>>>

\* the calls made so far returned what the claim says, for the given prefix,
\* and equal calls returned equal lists
ReturnsAsClaimed(prefix) ==
    /\ \A i \in 1..Len(adapter.results) :
          LET c == adapter.results[i]
          IN adapter.request.flavor \in {"gnu", "bsd"} =>
                c.ret = ClaimedCmd(adapter.request.flavor, prefix, c.fn, c.arg)
    /\ \A i, j \in 1..Len(adapter.results) :
          (adapter.results[i].fn = adapter.results[j].fn
             /\ adapter.results[i].arg = adapter.results[j].arg) =>
                adapter.results[i].ret = adapter.results[j].ret

InputClosed == proc.state # "none" /\ ~proc.stdinOpen

\* C25: the watcher has returned only when the observer thread has finished,
\* however a timeout or an interrupt falls among the dispatches; so while the
\* input is closed no copy_file call of the observer thread is in progress
\* (none was writing when it was closed, none has started since).
C25_CloseOnlyAfterObserverEnds ==
    /\ (mainPc \in {"closing", "waiting", "done"} /\ obs.state # "none") =>
          obs.state \in {"stopped", "dead"}
    /\ InputClosed => copying.obs = NoPath

\* C26: in runs of the watch phase alone into a fresh destination, no regular
\* file whose path relative to the source root matches the ignore matcher is
\* at the destination, whatever events were dispatched (events of the
\* directories above it included).
C26_IgnoredNeverWritten ==
    \A f \in FilePaths : BulkSkips(f) => ~IsFile(remote, dest_dir \o f)

====
